---- MODULE Spec2Model ----
(***************************************************************************)
(* A model of proxy.py: an OpenAI-compatible proxy in front of the GLM     *)
(* chat-completion API.  One connection handler (ProxyHandler) is modelled *)
(* from the request line to the end of its response, together with the     *)
(* pure functions it is built from.                                        *)
(***************************************************************************)
EXTENDS Integers, Sequences, FiniteSets, TLC

(***************************************************************************)
(* JSON values.  Every value is a tagged record, so that values of         *)
(* different JSON types can be compared.  A Python dict is a function from *)
(* its keys to JSON values, a Python list is a sequence.                   *)
(***************************************************************************)
Null == [t |-> "null"]
Str(s) == [t |-> "str", s |-> s]
Num(n) == [t |-> "num", n |-> n]
Bool(b) == [t |-> "bool", b |-> b]
Obj(f) == [t |-> "obj", f |-> f]
Arr(q) == [t |-> "arr", q |-> q]
\* The outcome of a call that raised exception e.
Raised(e) == [t |-> "raise", e |-> e]
\* A key that a generated input leaves out.
Absent == [t |-> "absent"]

EmptyMap == [k \in {} |-> Null]
EmptyObj == Obj(EmptyMap)

IsObj(v) == v.t = "obj"
IsRaised(v) == v.t = "raise"

\* Python truthiness, as used by `not x`, `x or y` and `if x`.
Truthy(v) ==
    CASE v.t = "null" -> FALSE
      [] v.t = "str" -> v.s # ""
      [] v.t = "num" -> v.n # 0
      [] v.t = "bool" -> v.b
      [] v.t = "obj" -> DOMAIN v.f # {}
      [] v.t = "arr" -> Len(v.q) > 0
      [] OTHER -> TRUE

\* dict.get(k, d), dict[k] = v, dict.pop(k, None), dict.setdefault(k, v).
Get(f, k, d) == IF k \in DOMAIN f THEN f[k] ELSE d
Put(f, k, v) == [x \in DOMAIN f \cup {k} |-> IF x = k THEN v ELSE f[x]]
Pop(f, k) == [x \in DOMAIN f \ {k} |-> f[x]]
SetDefault(f, k, v) == IF k \in DOMAIN f THEN f ELSE Put(f, k, v)
\* A record with its Absent fields left out: the dict a generated input stands for.
Strip(r) == [k \in {x \in DOMAIN r : r[x] # Absent} |-> r[k]]

Min(a, b) == IF a <= b THEN a ELSE b

(***************************************************************************)
(* The static tables.                                                      *)
(***************************************************************************)
MODELS ==
    [m \in {"glm-4.7", "glm-4.7-flash"} |->
        IF m = "glm-4.7"
        THEN [url |-> "https://api.z.ai/api/coding/paas/v4/chat/completions",
              max_tokens |-> 8192]
        ELSE [url |-> "https://api.z.ai/api/paas/v4/chat/completions",
              max_tokens |-> 8192]]

MODEL_ALIASES ==
    [a \in {"gpt-4", "gpt-4o", "gpt-4-turbo", "gpt-3.5-turbo", "gpt-4o-mini",
            "claude-3-sonnet", "claude-3-haiku"} |->
        IF a \in {"gpt-4", "gpt-4o", "gpt-4-turbo", "claude-3-sonnet"}
        THEN "glm-4.7"
        ELSE "glm-4.7-flash"]

DEFAULT_MODEL == "glm-4.7-flash"

MESSAGE_LEVEL_FIELDS ==
    {"tool_calls", "function_call", "reasoning_content", "metadata", "audio",
     "mcp_calls", "mcp_metadata"}

(***************************************************************************)
(* resolve_model: exact match, else alias, else the default.               *)
(***************************************************************************)
resolve_model_no_default(name) ==
    IF name \in DOMAIN MODELS THEN name
    ELSE IF name \in DOMAIN MODEL_ALIASES THEN MODEL_ALIASES[name] ELSE name

resolve_model(name) ==
    IF name \in DOMAIN MODELS THEN name
    ELSE IF name \in DOMAIN MODEL_ALIASES THEN MODEL_ALIASES[name]
         ELSE DEFAULT_MODEL

(***************************************************************************)
(* clamp_max_tokens.  The inbound value is a JSON value; two more shapes   *)
(* matter to int(): a string of digits ("numstr", which int() parses to n) *)
(* and the non-finite floats json.loads accepts (NaN, Infinity, 1e999).    *)
(* int() raises ValueError on a non-numeric string and on NaN, TypeError   *)
(* on a list or an object, and OverflowError on an infinity; only the      *)
(* first two are caught.                                                   *)
(***************************************************************************)
NumStr(n) == [t |-> "numstr", n |-> n]
Float(v) == [t |-> "float", v |-> v]

\* int(value): an integer, or the exception raised.
PyInt(value) ==
    CASE value.t = "num" -> Num(value.n)
      [] value.t = "numstr" -> Num(value.n)
      [] value.t = "bool" -> Num(IF value.b THEN 1 ELSE 0)
      [] value.t = "str" -> Raised("ValueError")
      [] value.t = "float" ->
            IF value.v = "nan" THEN Raised("ValueError")
            ELSE Raised("OverflowError")
      [] OTHER -> Raised("TypeError")

clamp_max_tokens(value, limit) ==
    IF value.t = "null" THEN Num(Min(4096, limit))
    ELSE LET i == PyInt(value) IN
         IF ~IsRaised(i) THEN Num(Min(i.n, limit))
         ELSE IF i.e \in {"ValueError", "TypeError"} THEN Num(Min(4096, limit))
              ELSE i

(***************************************************************************)
(* ensure_role.  A truthy message that is not a dict makes `"role" in      *)
(* message`, `message["role"]` or dict(message) raise.                     *)
(***************************************************************************)
ensure_role(message, default) ==
    IF ~Truthy(message)
    THEN Obj([role |-> Str(default), content |-> Str("")])
    ELSE IF ~IsObj(message) THEN Raised("TypeError")
    ELSE IF "role" \in DOMAIN message.f /\ Truthy(message.f["role"])
         THEN message
         ELSE Obj(SetDefault(message.f, "role", Str(default)))

\* The hoisting loop shared by both normalizers: every MESSAGE_LEVEL_FIELDS key
\* of the choice that the message lacks is copied into (a copy of) the message.
HoistOverwrite(choice, message) ==
    [k \in DOMAIN message \cup (MESSAGE_LEVEL_FIELDS \cap DOMAIN choice) |->
        IF k \in MESSAGE_LEVEL_FIELDS \cap DOMAIN choice THEN choice[k] ELSE message[k]]

Hoist(choice, message) ==
    [k \in DOMAIN message \cup (MESSAGE_LEVEL_FIELDS \cap DOMAIN choice) |->
        IF k \in DOMAIN message THEN message[k] ELSE choice[k]]

\* normalized["index"] = choice.get("index", idx);
\* normalized["finish_reason"] = choice.get("finish_reason")
WithIndexAndFinish(c, idx) ==
    Put(Put(c, "index", Get(c, "index", Num(idx))),
        "finish_reason", Get(c, "finish_reason", Null))

\* x or {}
OrEmpty(v) == IF Truthy(v) THEN v ELSE EmptyObj

(***************************************************************************)
(* normalize_choice (sync).  choice is a JSON value; one that is not a     *)
(* dict makes dict(choice) or choice.get raise.                            *)
(***************************************************************************)
\* Lines 282-284: choice["message"], or choice["delta"] when that is falsy.
PickMessage(c) ==
    IF ~Truthy(Get(c, "message", Null)) /\ "delta" \in DOMAIN c
    THEN c["delta"]
    ELSE Get(c, "message", Null)

\* Line 293: the keys whose value is None or {} are dropped.
DropNullAndEmpty(n) ==
    Obj([k \in {x \in DOMAIN n : n[x] \notin {Null, EmptyObj}} |-> n[k]])

\* Lines 286-293, er being ensure_role's result.
SyncChoice(c, idx, er) ==
    IF IsRaised(er) THEN er
    ELSE DropNullAndEmpty(
            Pop(Put(WithIndexAndFinish(c, idx), "message", Obj(Hoist(c, er.f))),
                "delta"))

normalize_choice(choice, idx) ==
    IF ~IsObj(choice) THEN Raised("TypeError")
    ELSE SyncChoice(choice.f, idx,
                    ensure_role(OrEmpty(PickMessage(choice.f)), "assistant"))

(***************************************************************************)
(* normalize_stream_choice (stream).                                       *)
(***************************************************************************)
\* Line 299: choice.get("delta") or choice.get("message") or {}
PickDelta(c) ==
    IF Truthy(Get(c, "delta", Null)) THEN c["delta"]
    ELSE IF Truthy(Get(c, "message", Null)) THEN c["message"]
    ELSE EmptyObj

\* Lines 300-305.
Enrich(c, delta) == IF IsObj(delta) THEN Obj(Hoist(c, delta.f)) ELSE delta

\* Lines 306-307.
WithDeltaAlways(n, delta) == Put(n, "delta", delta)

WithDelta(n, delta) == IF Truthy(delta) THEN Put(n, "delta", delta) ELSE n

\* Line 309: the keys whose value is None are dropped.
DropNullAndEmptyStream(n) ==
    Obj([k \in {x \in DOMAIN n : n[x] \notin {Null, EmptyObj}} |-> n[k]])

DropNull(n) == Obj([k \in {x \in DOMAIN n : n[x] # Null} |-> n[k]])

normalize_stream_choice(choice, idx) ==
    IF ~IsObj(choice) THEN Raised("TypeError")
    ELSE DropNull(
            Pop(WithDelta(WithIndexAndFinish(choice.f, idx),
                          Enrich(choice.f, PickDelta(choice.f))),
                "message"))

(***************************************************************************)
(* What a normalizer leaves of its argument.  `message` and `delta` are    *)
(* references into the upstream choice, and ensure_role returns its        *)
(* argument itself when the role is set; the fields are hoisted into a     *)
(* copy (lines 287 and 301), so the upstream choice stays as it was.       *)
(***************************************************************************)
\* Line 287: normalized_message = dict(normalized_message)
message_copied_before_hoist == TRUE
\* Line 301: enriched_delta = dict(delta)
delta_copied_before_hoist == TRUE

\* ensure_role returned the very object it was given (lines 62-63).
SameObject(src) ==
    IsObj(src) /\ Truthy(src) /\ "role" \in DOMAIN src.f /\ Truthy(src.f["role"])

\* The key of the choice under which the sync message was found (lines 282-284).
MessageKey(c) ==
    IF ~Truthy(Get(c, "message", Null)) /\ "delta" \in DOMAIN c THEN "delta"
    ELSE "message"
\* The key of the choice under which the stream delta was found (line 299).
DeltaKey(c) == IF Truthy(Get(c, "delta", Null)) THEN "delta" ELSE "message"

\* The upstream choice after normalize_choice has returned.
ChoiceAfterSync(c) ==
    IF message_copied_before_hoist \/ ~SameObject(PickMessage(c)) THEN c
    ELSE Put(c, MessageKey(c), Obj(Hoist(c, PickMessage(c).f)))

\* The upstream choice after normalize_stream_choice has returned.
ChoiceAfterStream(c) ==
    IF delta_copied_before_hoist \/ ~IsObj(PickDelta(c)) \/ ~Truthy(PickDelta(c))
    THEN c
    ELSE Put(c, DeltaKey(c), Obj(Hoist(c, PickDelta(c).f)))

\* make_openai_id: "chatcmpl-" and 29 random characters; one symbolic token.
make_openai_id == Str("chatcmpl-<29 random chars>")
\* int(time.time())
TimeNow == Num(1700000000 + 1)

\* The elements `enumerate(x)` yields for the value of a "choices" key: the
\* elements of a list, nothing for an empty string or dict; iterating None or a
\* number raises, and the keys or characters of a non-empty dict or string are
\* strings, on which the normalizers raise.
Iterate(v) ==
    CASE v.t = "arr" -> Arr(v.q)
      [] v.t = "str" /\ v.s = "" -> Arr(<<>>)
      [] v.t = "obj" /\ DOMAIN v.f = {} -> Arr(<<>>)
      [] OTHER -> Raised("TypeError")

\* The list a comprehension builds, or the first exception raised in it.
AnyRaised(q) == \E i \in 1..Len(q) : IsRaised(q[i])
FirstRaised(q) ==
    q[CHOOSE i \in 1..Len(q) : IsRaised(q[i]) /\ \A j \in 1..(i-1) : ~IsRaised(q[j])]
Collect(q) == IF AnyRaised(q) THEN FirstRaised(q) ELSE Arr(q)

(***************************************************************************)
(* normalize_response.                                                     *)
(***************************************************************************)
DefaultChoice ==
    Obj([index |-> Num(0),
         message |-> Obj([role |-> Str("assistant"), content |-> Str("")]),
         finish_reason |-> Str("stop")])

\* Lines 264-267.
SyncChoices(it) ==
    IF IsRaised(it) THEN it
    ELSE Collect([i \in 1..Len(it.q) |-> normalize_choice(it.q[i], i - 1)])

\* Lines 259-263 and 268-276, cs being the normalized choices.
ResponseWithDefaultAlways(r, model_id, cs) ==
    IF IsRaised(cs) THEN cs
    ELSE Obj(Put(Put(SetDefault(SetDefault(SetDefault(r, "id", make_openai_id),
                                           "object", Str("chat.completion")),
                                "created", TimeNow),
                     "model", Str(model_id)),
                 "choices", Arr(Append(cs.q, DefaultChoice))))

ResponseWith(r, model_id, cs) ==
    IF IsRaised(cs) THEN cs
    ELSE Obj(Put(Put(SetDefault(SetDefault(SetDefault(r, "id", make_openai_id),
                                           "object", Str("chat.completion")),
                                "created", TimeNow),
                     "model", Str(model_id)),
                 "choices",
                 IF Len(cs.q) = 0 THEN Arr(<<DefaultChoice>>) ELSE cs))

normalize_response(result, model_id) ==
    IF ~IsObj(result) THEN Raised("TypeError")
    ELSE ResponseWith(result.f, model_id,
                      SyncChoices(Iterate(Get(result.f, "choices", Arr(<<>>)))))

(***************************************************************************)
(* extract_text_from_choices: the text of the normalized stream choices,   *)
(* or the TypeError of `total += x` for a block whose "text" is no string. *)
(***************************************************************************)
\* block.get("text", "") for a dict, nothing for any other block.
BlockText(b) == IF IsObj(b) THEN Get(b.f, "text", Str("")) ELSE Str("")
AddText(acc, t) == IF t.t # "str" THEN Raised("TypeError") ELSE Str(acc.s \o t.s)

RECURSIVE BlocksText(_, _)
BlocksText(blocks, acc) ==
    IF IsRaised(acc) \/ Len(blocks) = 0 THEN acc
    ELSE BlocksText(Tail(blocks), AddText(acc, BlockText(Head(blocks))))

\* choice.get("delta", {}).get("content"), None when the delta is no dict.
DeltaContent(delta) == IF IsObj(delta) THEN Get(delta.f, "content", Null) ELSE Null
AddContent(acc, content) ==
    CASE content.t = "str" -> Str(acc.s \o content.s)
      [] content.t = "arr" -> BlocksText(content.q, acc)
      [] OTHER -> acc

RECURSIVE extract_text_acc(_, _)
extract_text_acc(choices, acc) ==
    IF IsRaised(acc) \/ Len(choices) = 0 THEN acc
    ELSE extract_text_acc(
            Tail(choices),
            AddContent(acc, DeltaContent(Get(Head(choices).f, "delta", EmptyObj))))

extract_text_from_choices(choices) == extract_text_acc(choices, Str(""))

(***************************************************************************)
(* The upstream event stream: a sequence of lines.  A line is              *)
(*   blank    an empty line (the separator after each event)               *)
(*   other    a line without the "data:" prefix (a comment, "event: x")    *)
(*   badutf8  "data: " and bytes that line.decode("utf-8") rejects         *)
(*   done     "data: [DONE]"                                               *)
(*   badjson  "data: " and text json.loads rejects with JSONDecodeError    *)
(*   json     "data: " and the JSON text of value v                        *)
(***************************************************************************)
Line(k, v) == [k |-> k, v |-> v]

DoneFrame == [kind |-> "done", oai |-> Null]
ChunkFrame(oai) == [kind |-> "chunk", oai |-> oai]

\* Lines 226-229.
StreamChoices(it) ==
    IF IsRaised(it) THEN it
    ELSE Collect([i \in 1..Len(it.q) |-> normalize_stream_choice(it.q[i], i - 1)])

\* Lines 231-245: the outbound chunk.
PassedThrough == {"usage", "system_fingerprint", "service_tier", "metadata"}
ChunkEnvelope(c, model_id, chat_id, ncs) ==
    [k \in {"id", "object", "created", "model", "choices"}
            \cup (PassedThrough \cap DOMAIN c) |->
        CASE k = "id" -> Get(c, "id", chat_id)
          [] k = "object" -> Get(c, "object", Str("chat.completion.chunk"))
          [] k = "created" -> Get(c, "created", TimeNow)
          [] k = "model" -> Get(c, "model", Str(model_id))
          [] k = "choices" -> ncs
          [] OTHER -> c[k]]

\* Lines 230-245, text being extract_text_from_choices' result.
ChunkResult(c, model_id, chat_id, ncs, text) ==
    IF IsRaised(text) THEN text
    ELSE [t |-> "chunk",
          frame |-> ChunkFrame(Obj(ChunkEnvelope(c, model_id, chat_id, ncs))),
          text |-> text.s]

ChunkWith(c, model_id, chat_id, ncs) ==
    IF IsRaised(ncs) THEN ncs
    ELSE ChunkResult(c, model_id, chat_id, ncs, extract_text_from_choices(ncs.q))

\* Lines 225-245: the outbound frame and its text for one parsed upstream chunk,
\* or the exception raised on the way.
ProcessChunk(chunk, model_id, chat_id) ==
    IF ~IsObj(chunk) THEN Raised("AttributeError")
    ELSE ChunkWith(chunk.f, model_id, chat_id,
                   StreamChoices(Iterate(Get(chunk.f, "choices", Arr(<<>>)))))

(***************************************************************************)
(* Bounds of the model.                                                    *)
(***************************************************************************)
\* The longest upstream event stream explored.
MaxLines == 3
\* The largest ordinal position given to normalize_choice on its own.
MaxIdx == 1

(***************************************************************************)
(* The inputs: requests on the wire, upstream replies.                     *)
(***************************************************************************)
\* "PUT" and "DELETE" stand for the methods ProxyHandler defines no do_ method for.
Methods == {"GET", "POST", "OPTIONS", "PUT", "DELETE"}
ChatPaths == {"/v1/chat/completions", "/chat/completions"}
ModelPaths == {"/v1/models", "/models"}
Paths == ChatPaths \cup ModelPaths \cup {"/health", "/v1/embeddings"}

\* A body json.loads rejects, and a Content-Length int() rejects.
NotJson == [t |-> "notjson"]
BadLength == [t |-> "badlen"]

ModelNames ==
    {"glm-4.7", "glm-4.7-flash", "gpt-4", "gpt-3.5-turbo", "claude-3-haiku",
     "llama-3", ""}
MaxTokVals ==
    {Absent, Null, Num(-1), Num(0), Num(100), Num(4096), Num(8192), Num(8193),
     Num(999999), NumStr(100), NumStr(999999), Str("lots"), Arr(<<>>), EmptyObj,
     Float("nan"), Float("inf"), Bool(TRUE)}

ChatBody(m, mt, st) == Obj(Strip([model |-> m, max_tokens |-> mt, stream |-> st]))

\* Every model name with every max_tokens, not streamed; a few of them streamed;
\* and the bodies that are not a JSON object.
ChatBodies ==
    {ChatBody(m, mt, Absent) : m \in {Absent} \cup {Str(n) : n \in ModelNames},
                               mt \in MaxTokVals}
    \cup {ChatBody(m, mt, st) : m \in {Absent, Str("gpt-4")},
                                mt \in {Absent, Float("inf")},
                                st \in {Bool(TRUE), Bool(FALSE)}}
    \cup {NotJson, BadLength, Null, Arr(<<>>)}

Requests ==
    {[method |-> m, path |-> p, body |-> Null] :
        m \in Methods, p \in Paths}
    \cup {[method |-> "POST", path |-> p, body |-> b] :
        p \in ChatPaths, b \in ChatBodies}

\* Upstream error bodies: the JSON value the text parses to (or NotJson) and the
\* length of the text.
ErrBodies ==
    {[v |-> Obj([error |-> Obj([message |-> Str("quota exceeded")])]), len |-> 40],
     [v |-> Obj([error |-> Obj([message |-> Null])]), len |-> 30],
     [v |-> Obj([error |-> Obj([code |-> Num(7)])]), len |-> 600],
     [v |-> Obj([error |-> Str("denied")]), len |-> 20],
     [v |-> Obj([detail |-> Str("denied")]), len |-> 501],
     [v |-> Arr(<<>>), len |-> 2],
     [v |-> NotJson, len |-> 500],
     [v |-> NotJson, len |-> 700],
     [v |-> NotJson, len |-> 0]}
ErrCodes == {401, 429, 500}

\* Complete upstream bodies of the sync path.
SampleMessage == Obj([role |-> Str("assistant"), content |-> Str("hi")])
SyncBodies ==
    {NotJson,
     EmptyObj,
     Arr(<<>>),
     Obj([choices |-> Null]),
     Obj([choices |-> Arr(<<>>), usage |-> Null]),
     Obj([id |-> Str("r1"), model |-> Str("glm-upstream"),
          choices |-> Arr(<<Obj([index |-> Num(0), message |-> SampleMessage,
                                 finish_reason |-> Str("stop")])>>),
          usage |-> Obj([total_tokens |-> Num(7)])]),
     Obj([choices |-> Arr(<<Obj([message |-> SampleMessage]),
                            Obj([index |-> Null,
                                 delta |-> Obj([content |-> Str("yo")])])>>)])}

\* The lines of an upstream event stream.
ChunkA ==
    Obj([id |-> Str("u1"),
         choices |-> Arr(<<Obj([index |-> Num(0),
                                delta |-> Obj([content |-> Str("he")])])>>)])
ChunkB ==
    Obj([choices |-> Arr(<<Obj([delta |-> Obj([role |-> Str("assistant"),
                                                content |-> Str("y")]),
                                finish_reason |-> Str("stop")])>>),
         usage |-> Obj([total_tokens |-> Num(9)])])
\* A chunk whose content is a list of blocks: one with a text, one without a
\* "text" key, one whose "text" is null.
ChunkC ==
    Obj([choices |-> Arr(<<Obj([index |-> Num(0),
                                delta |-> Obj([content |->
                                    Arr(<<Obj([text |-> Str("a")]),
                                          Obj([type |-> Str("image")]),
                                          Obj([text |-> Null])>>)])])>>)])
StreamLines ==
    {Line("blank", Null), Line("other", Null), Line("badutf8", Null),
     Line("done", Null), Line("badjson", Null),
     Line("json", Null), Line("json", ChunkA), Line("json", ChunkB),
     Line("json", ChunkC)}

RECURSIVE SeqsUpTo(_, _)
SeqsUpTo(S, n) ==
    IF n = 0 THEN {<<>>}
    ELSE LET shorter == SeqsUpTo(S, n - 1)
         IN  shorter \cup {Append(q, e) : q \in {r \in shorter : Len(r) = n - 1}, e \in S}

\* What urlopen did: k is "ok" (a 2xx reply: a stream of lines that ends when
\* upstream closes or when reading raises, or a complete body), "http_error"
\* (HTTPError: a status code and an error body), "url_error", "timeout", or
\* "remote_disconnected" (upstream closed the connection without a reply:
\* http.client.RemoteDisconnected, a ConnectionResetError, which urlopen raises
\* as it is).
Up(k, code, err, lines, end, body) ==
    [k |-> k, code |-> code, err |-> err, lines |-> lines, end |-> end, body |-> body]
NoErr == [v |-> NotJson, len |-> 0]
NoUp == Up("none", 0, NoErr, <<>>, "close", Null)
UpstreamFailures ==
    {Up("http_error", c, e, <<>>, "close", Null) : c \in ErrCodes, e \in ErrBodies}
    \cup {Up(k, 0, NoErr, <<>>, "close", Null) :
            k \in {"url_error", "timeout", "remote_disconnected"}}
UpstreamOutcomes(streamed) ==
    UpstreamFailures
    \cup IF streamed
         THEN {Up("ok", 200, NoErr, ls, end, Null) :
                 ls \in SeqsUpTo(StreamLines, MaxLines), end \in {"close", "error"}}
         ELSE {Up("ok", 200, NoErr, <<>>, "close", b) : b \in SyncBodies}

\* The exceptions a write to a socket whose peer is gone raises.
WriteErrors == {"BrokenPipeError", "ConnectionResetError"}
\* ConnectionResetError and its subclasses: what ProxyHandler.handle catches.
ConnResetFamily == {"ConnectionResetError", "RemoteDisconnected"}

\* The choices normalize_choice and normalize_stream_choice are applied to.
NormMessages ==
    {Absent, Null, EmptyObj,
     SampleMessage,
     Obj([content |-> Str("hi")]),
     Obj([role |-> Str(""), content |-> Str("hi")]),
     Obj([role |-> Null]),
     Obj([role |-> Str("assistant"), tool_calls |-> Arr(<<Str("inner")>>)])}
NormDeltas ==
    {Absent, Null, EmptyObj, Obj([content |-> Str("he")]),
     Obj([role |-> Str("assistant"), content |-> Str("y")])}
NormChoices ==
    {Obj(Strip([index |-> i, finish_reason |-> fr, message |-> m, delta |-> d,
                tool_calls |-> tc])) :
        i \in {Absent, Null, Num(0), Num(5)},
        fr \in {Absent, Null, Str("stop")},
        m \in NormMessages,
        d \in NormDeltas,
        tc \in {Absent, Null, EmptyObj, Arr(<<Str("outer")>>)}}

(***************************************************************************)
(* The state.                                                              *)
(***************************************************************************)
VARIABLES
    pc,         \* "accept": request read, not dispatched; "stream": inside the
                \* loop of do_stream; "finished": the handler is over;
                \* "norm": no handler (the normalizers on their own)
    req,        \* the request on the wire: method, path, body
    model,      \* handle_chat's resolved model id ("" before it is resolved)
    sent,       \* the payloads sent upstream, in order
    upres,      \* what urlopen did
    resp,       \* the status line, headers and body written to the caller
    out,        \* the event-stream frames written to the caller, in order
    pos,        \* the number of upstream lines read
    done_sent,  \* do_stream's done_sent
    total,      \* do_stream's total
    peer,       \* "connected", or "gone": writes to the caller's socket raise
    wfail,      \* whether a write to the caller has raised
    escaped,    \* the exception that left ProxyHandler.handle, or "none"
    logged,     \* the kinds of log lines printed
    nin,        \* the choice given to a normalizer on its own
    nidx,       \* its ordinal position
    nmode,      \* "none", or the normalizer applied: "sync", "stream"
    nout,       \* its result
    conns,      \* the connections of the threaded server, each with the state
                \* of its handler thread
    listener,   \* "listening": serve_forever is free to accept; "busy": it is
                \* inside process_request
    nextid      \* the number of chat ids make_openai_id has handed out

vars == <<pc, req, model, sent, upres, resp, out, pos, done_sent, total, peer,
          wfail, escaped, logged, nin, nidx, nmode, nout, conns, listener, nextid>>
hvars == <<pc, req, model, sent, upres, resp, out, pos, done_sent, total, peer,
           wfail, escaped, logged>>
nvars == <<nin, nidx, nmode, nout>>
cvars == <<conns, listener, nextid>>

NoResp == [kind |-> "none", status |-> 0, body |-> Null]

(***************************************************************************)
(* send_json and send_error_json.                                          *)
(***************************************************************************)
send_json(status, data) == [kind |-> "json", status |-> status, body |-> data]

send_error_json(status, message) ==
    send_json(status,
              Obj([error |-> Obj([message |-> message,
                                  type |-> Str("api_error"),
                                  code |-> Num(status)])]))

(***************************************************************************)
(* The end of a handler.  H is what handle_chat leaves behind; an          *)
(* exception that leaves do_POST reaches ProxyHandler.handle, which        *)
(* catches ConnectionResetError (and logs it) and lets any other pass.     *)
(***************************************************************************)
H(p, m, s, u, r, e, lg) ==
    [pc |-> p, model |-> m, sent |-> s, upres |-> u, resp |-> r, escaped |-> e,
     logged |-> lg]

handle_catches(e) == e \in ConnResetFamily

LeaveHandler(m, s, u, r, e, lg) ==
    IF handle_catches(e)
    THEN H("finished", m, s, u, r, "none", lg \cup {"conn_reset"})
    ELSE H("finished", m, s, u, r, e, lg)

(***************************************************************************)
(* do_normal: the sync path.                                               *)
(***************************************************************************)
\* Lines 191-196, openai_resp being normalize_response's result.
NormalResult(m, s, u, lg, openai_resp) ==
    IF IsRaised(openai_resp)
    THEN LeaveHandler(m, s, u, NoResp, openai_resp.e, lg)
    ELSE IF ~IsObj(Get(openai_resp.f, "usage", EmptyObj))
    THEN LeaveHandler(m, s, u, NoResp, "AttributeError", lg)
    ELSE H("finished", m, s, u, send_json(200, openai_resp), "none",
           lg \cup {"ok"})

do_normal(m, s, u, lg) ==
    IF u.body.t = "notjson"
    THEN H("finished", m, s, u, send_error_json(502, Str("Invalid response")),
           "none", lg)
    ELSE NormalResult(m, s, u, lg, normalize_response(u.body, m))

(***************************************************************************)
(* handle_chat, up to the call of do_stream.                               *)
(***************************************************************************)
\* Lines 136-141: reading and parsing the body raised (any Exception).
BodyRejectedJsonOnly(body) == body.t = "notjson"

BodyRejected(body) == body.t \in {"notjson", "badlen"}

\* Lines 170-175: the message relayed for an upstream error body: its nested
\* error.message, else the first 500 characters of the text.
FirstChars(err) == [t |-> "text", len |-> Min(err.len, 500)]
NestedMessage(e, raw) == IF IsObj(e) THEN Get(e.f, "message", raw) ELSE raw
UpstreamMessage(err) ==
    IF ~IsObj(err.v) THEN FirstChars(err)
    ELSE NestedMessage(Get(err.v.f, "error", EmptyObj), FirstChars(err))

WantsStream(body) == IsObj(body) /\ Truthy(Get(body.f, "stream", Bool(FALSE)))

SseHeaders == [kind |-> "sse", status |-> 200, body |-> Null]

\* Lines 166-183: the upstream call and what follows it; s is what was sent.
CallUpstream(m, s, stream, up, lg) ==
    CASE up.k = "http_error" ->
           H("finished", m, s, up,
             send_error_json(up.code, UpstreamMessage(up.err)), "none",
             lg \cup {"zhipu_err"})
      [] up.k \in {"url_error", "timeout"} ->
           H("finished", m, s, up,
             send_error_json(502, Str("Connection error")), "none", lg)
      [] up.k = "remote_disconnected" ->
           LeaveHandler(m, s, up, NoResp, "RemoteDisconnected", lg)
      [] OTHER ->
           IF Truthy(stream)
           THEN H("stream", m, s, up, SseHeaders, "none", lg)
           ELSE do_normal(m, s, up, lg)

\* Lines 151-159: the upstream payload, mt being clamp_max_tokens' result.
Translate(f, m, stream, mt) ==
    Put(Put(Put(SetDefault(SetDefault(f, "messages", Arr(<<>>)),
                           "temperature", Float("0.7")),
                "model", Str(m)),
            "stream", stream),
        "max_tokens", mt)

ChatWithTokens(f, m, stream, up, lg, mt) ==
    IF IsRaised(mt)
    THEN LeaveHandler(m, <<>>, NoUp, NoResp, mt.e, lg)
    ELSE CallUpstream(m, <<Obj(Translate(f, m, stream, mt))>>, stream, up, lg)

\* Lines 145-159, m being the resolved model: MODELS[m] raises KeyError for an
\* id that is no key of MODELS.
ChatResolved(f, requested, m, up) ==
    IF m \notin DOMAIN MODELS
    THEN LeaveHandler(m, <<>>, NoUp, NoResp, "KeyError", {})
    ELSE ChatWithTokens(f, m, Get(f, "stream", Bool(FALSE)), up,
                        IF requested # m THEN {"alias"} ELSE {},
                        clamp_max_tokens(Get(f, "max_tokens", Null),
                                         MODELS[m].max_tokens))

handle_chat(body, up) ==
    IF BodyRejected(body)
    THEN H("finished", "", <<>>, NoUp, send_error_json(400, Str("Invalid body")),
           "none", {})
    ELSE IF ~IsObj(body)
    THEN LeaveHandler("", <<>>, NoUp, NoResp, "AttributeError", {})
    ELSE ChatResolved(body.f, Get(body.f, "model", Str(DEFAULT_MODEL)).s,
                      resolve_model(Get(body.f, "model", Str(DEFAULT_MODEL)).s),
                      up)

(***************************************************************************)
(* do_stream: one iteration of `for line in resp`, with everything that    *)
(* follows it when it is the last (the except and finally blocks, the      *)
(* closing log line).  S is what the step leaves behind; exc is the        *)
(* exception that leaves do_stream, or "none".                             *)
(***************************************************************************)
S(p, o, n, ds, tot, lg, wf, exc) ==
    [pc |-> p, out |-> o, pos |-> n, done_sent |-> ds, total |-> tot,
     logged |-> lg, wfail |-> wf, exc |-> exc]

\* Line 219.
done_sent_never_set == FALSE

done_sent_after_sentinel == TRUE

\* Lines 246-249: the frame is written and flushed.
WriteFrameTwice(o, frame) == Append(Append(o, frame), frame)

WriteFrame(o, frame) == Append(o, frame)

\* Lines 252-256: the sentinel is written unless done_sent; e is what the write
\* raises when the peer is gone (pr), and it leaves do_stream.
Finalize(pr, o, n, ds, tot, lg, wf, e) ==
    IF ds THEN S("finished", o, n, ds, tot, lg \cup {"chars"}, wf, "none")
    ELSE IF pr = "gone" THEN S("finished", o, n, ds, tot, lg, TRUE, e)
    ELSE S("finished", Append(o, DoneFrame), n, ds, tot, lg \cup {"chars"}, wf,
           "none")

\* Lines 250-251: an exception raised in the loop is logged, and the loop is over.
StreamError(pr, o, n, tot, lg, wf, e) ==
    Finalize(pr, o, n, FALSE, tot, lg \cup {"stream_error"}, wf, e)

\* Line 213: the lines skipped before anything is parsed.
IsSkipped(line) == line.k \in {"blank", "other"}

\* Lines 216-220.
OnSentinel(pr, o, n, tot, lg, wf, e) ==
    IF pr = "gone" THEN StreamError(pr, o, n, tot, lg, TRUE, e)
    ELSE Finalize(pr, Append(o, DoneFrame), n, done_sent_after_sentinel, tot, lg,
                  wf, e)

\* Lines 230-249, r being the processed chunk.
OnChunk(r, pr, o, n, tot, lg, wf, e) ==
    IF IsRaised(r) THEN StreamError(pr, o, n, tot, lg, wf, e)
    ELSE IF pr = "gone" THEN StreamError(pr, o, n, tot \o r.text, lg, TRUE, e)
    ELSE S("stream", WriteFrame(o, r.frame), n, FALSE, tot \o r.text, lg, wf,
           "none")

\* Lines 212-249: one line of the stream; m is do_stream's model, cid its
\* chat_id, pr the state of the caller's socket.
OnLine(line, m, cid, pr, o, n, tot, lg, wf, e) ==
    IF line.k = "badutf8" THEN StreamError(pr, o, n, tot, lg, wf, e)
    ELSE IF IsSkipped(line) THEN S("stream", o, n, FALSE, tot, lg, wf, "none")
    ELSE IF line.k = "done" THEN OnSentinel(pr, o, n, tot, lg, wf, e)
    ELSE IF line.k = "badjson" THEN S("stream", o, n, FALSE, tot, lg, wf, "none")
    ELSE OnChunk(ProcessChunk(line.v, m, cid), pr, o, n, tot, lg, wf, e)

\* One iteration of the loop of a do_stream call whose upstream is u.
StreamStepOf(u, m, cid, pr, o, n, ds, tot, lg, wf, e) ==
    IF n = Len(u.lines)
    THEN IF u.end = "close"
         THEN Finalize(pr, o, n, ds, tot, lg, wf, e)
         ELSE StreamError(pr, o, n, tot, lg, wf, e)
    ELSE OnLine(u.lines[n + 1], m, cid, pr, o, n + 1, tot, lg, wf, e)

StreamStep(e) ==
    StreamStepOf(upres, model, make_openai_id, peer, out, pos, done_sent, total,
                 logged, wfail, e)

(***************************************************************************)
(* The actions.                                                            *)
(***************************************************************************)
\* No threaded server.
NoConns == conns = <<>> /\ listener = "listening" /\ nextid = 0

Idle ==
    /\ model = "" /\ sent = <<>> /\ upres = NoUp /\ resp = NoResp
    /\ out = <<>> /\ pos = 0 /\ done_sent = FALSE /\ total = ""
    /\ peer = "connected" /\ wfail = FALSE /\ escaped = "none" /\ logged = {}

Init ==
    /\ pc = "accept"
    /\ req \in Requests
    /\ Idle
    /\ nin = Null /\ nidx = 0 /\ nmode = "off" /\ nout = Null
    /\ NoConns

\* A response that needs no upstream call.
Respond(r) ==
    /\ pc' = "finished"
    /\ resp' = r
    /\ UNCHANGED <<req, model, sent, upres, out, pos, done_sent, total, peer,
                   wfail, escaped, logged, nin, nidx, nmode, nout, cvars>>

do_OPTIONS ==
    /\ pc = "accept"
    /\ req.method = "OPTIONS"
    /\ Respond([kind |-> "empty", status |-> 200, body |-> Null])

ModelEntry(m) ==
    Obj([id |-> Str(m), object |-> Str("model"), created |-> Num(1700000000),
         owned_by |-> Str("zhipuai")])
ModelList ==
    Obj([object |-> Str("list"),
         data |-> Arr(<<ModelEntry("glm-4.7"), ModelEntry("glm-4.7-flash")>>)])
Health ==
    Obj([status |-> Str("ok"),
         models |-> Arr(<<Str("glm-4.7"), Str("glm-4.7-flash")>>)])

do_GET ==
    /\ pc = "accept"
    /\ req.method = "GET"
    /\ Respond(IF req.path \in ModelPaths THEN send_json(200, ModelList)
               ELSE IF req.path = "/health" THEN send_json(200, Health)
               ELSE send_error_json(404, Str("Not found")))

\* What a handler that went through do_POST leaves behind.
AfterPost(h) ==
    /\ pc' = h.pc
    /\ model' = h.model
    /\ sent' = h.sent
    /\ upres' = h.upres
    /\ resp' = h.resp
    /\ escaped' = h.escaped
    /\ logged' = h.logged
    /\ UNCHANGED <<req, out, pos, done_sent, total, peer, wfail, nin, nidx,
                   nmode, nout, cvars>>

\* Lines 129-133, up being what urlopen does when it is called.
PostResult(r, up) ==
    IF r.path \in ChatPaths THEN handle_chat(r.body, up)
    ELSE H("finished", "", <<>>, NoUp, send_error_json(404, Str("Not found")),
           "none", {})

do_POST ==
    /\ pc = "accept"
    /\ req.method = "POST"
    /\ \E up \in UpstreamOutcomes(WantsStream(req.body)) :
         AfterPost(PostResult(req, up))

\* http.server finds no do_<METHOD> on the handler and answers 501 itself, with
\* its HTML error page.
unsupported_method ==
    /\ pc = "accept"
    /\ req.method \notin {"GET", "POST", "OPTIONS"}
    /\ Respond([kind |-> "html", status |-> 501, body |-> Str("Unsupported method")])

\* What one step of do_stream leaves behind; an exception that leaves do_stream
\* reaches ProxyHandler.handle.
AfterStream(st) ==
    /\ pc' = st.pc
    /\ out' = st.out
    /\ pos' = st.pos
    /\ done_sent' = st.done_sent
    /\ total' = st.total
    /\ wfail' = st.wfail
    /\ escaped' = IF st.exc = "none" \/ handle_catches(st.exc) THEN "none"
                  ELSE st.exc
    /\ logged' = IF st.exc # "none" /\ handle_catches(st.exc)
                 THEN st.logged \cup {"conn_reset"}
                 ELSE st.logged
    /\ UNCHANGED <<req, model, sent, upres, resp, peer, nin, nidx, nmode, nout,
                   cvars>>

do_stream ==
    /\ pc = "stream"
    /\ \E e \in WriteErrors : AfterStream(StreamStep(e))

\* The caller goes away in the middle of the stream.
PeerDisconnects ==
    /\ pc = "stream"
    /\ peer = "connected"
    /\ peer' = "gone"
    /\ UNCHANGED <<pc, req, model, sent, upres, resp, out, pos, done_sent, total,
                   wfail, escaped, logged, nin, nidx, nmode, nout, cvars>>

Next ==
    \/ do_OPTIONS
    \/ do_GET
    \/ do_POST
    \/ unsupported_method
    \/ do_stream
    \/ PeerDisconnects

Spec == Init /\ [][Next]_vars

(***************************************************************************)
(* The normalizers on their own: a choice and its position are drawn, and  *)
(* one of the two normalizers is applied to them.                          *)
(***************************************************************************)
InitNorm ==
    /\ pc = "norm"
    /\ req = [method |-> "GET", path |-> "/health", body |-> Null]
    /\ Idle
    /\ nin \in NormChoices
    /\ nidx \in 0..MaxIdx
    /\ nmode = "none"
    /\ nout = Null
    /\ NoConns

NormSync ==
    /\ nmode = "none"
    /\ nmode' = "sync"
    /\ nout' = normalize_choice(nin, nidx)
    /\ nin' = Obj(ChoiceAfterSync(nin.f))
    /\ UNCHANGED <<hvars, nidx, cvars>>

NormStream ==
    /\ nmode = "none"
    /\ nmode' = "stream"
    /\ nout' = normalize_stream_choice(nin, nidx)
    /\ nin' = Obj(ChoiceAfterStream(nin.f))
    /\ UNCHANGED <<hvars, nidx, cvars>>

NextNorm == NormSync \/ NormStream

SpecNorm == InitNorm /\ [][NextNorm]_vars

(***************************************************************************)
(* normalize_response on its own: an upstream body is drawn and            *)
(* normalized, and the result is normalized once more.                     *)
(***************************************************************************)
\* The most choices in an upstream body given to normalize_response on its own.
MaxChoices == 2

RespChoices ==
    {Obj(Strip([index |-> i, finish_reason |-> fr, message |-> m, tool_calls |-> tc])) :
        i \in {Absent, Null, Num(3)},
        fr \in {Null, Str("stop")},
        m \in {Absent, SampleMessage, Obj([role |-> Str(""), content |-> Str("hi")])},
        tc \in {Absent, Arr(<<Str("outer")>>)}}
    \cup {Str("x")}
RespBodies ==
    {Obj(Strip([id |-> i, choices |-> Arr(cs)])) :
        i \in {Absent, Str("r1")}, cs \in SeqsUpTo(RespChoices, MaxChoices)}
    \cup {EmptyObj, Obj([choices |-> Null]), Obj([id |-> Str("r1"), usage |-> Null])}

InitResp ==
    /\ pc = "resp"
    /\ req = [method |-> "GET", path |-> "/health", body |-> Null]
    /\ Idle
    /\ nin \in RespBodies
    /\ nidx = 0
    /\ nmode = "none"
    /\ nout = Null
    /\ NoConns

\* openai_resp = self.normalize_response(result, model)
NormResponse ==
    /\ nmode = "none"
    /\ nmode' = "once"
    /\ nout' = normalize_response(nin, DEFAULT_MODEL)
    /\ UNCHANGED <<hvars, nin, nidx, cvars>>

\* The response is given to normalize_response again.
NormAgain ==
    /\ nmode = "once"
    /\ ~IsRaised(nout)
    /\ nmode' = "twice"
    /\ nin' = nout
    /\ nout' = normalize_response(nout, DEFAULT_MODEL)
    /\ UNCHANGED <<hvars, nidx, cvars>>

NextResp == NormResponse \/ NormAgain

SpecResp == InitResp /\ [][NextResp]_vars

(***************************************************************************)
(* ThreadedHTTPServer: serve_forever hands every accepted connection to    *)
(* process_request, which starts a thread for it; the thread runs _handle: *)
(* finish_request (the ProxyHandler, from its request to the end of its    *)
(* response), handle_error when an Exception left it, and shutdown_request *)
(* in any case.  The threads run interleaved, one loop iteration of        *)
(* do_stream at a time.                                                    *)
(***************************************************************************)
\* The number of connections handled concurrently.
MaxConns == 2

StreamReq ==
    [method |-> "POST", path |-> "/v1/chat/completions",
     body |-> ChatBody(Str("gpt-4"), Absent, Bool(TRUE))]
SyncReq ==
    [method |-> "POST", path |-> "/chat/completions",
     body |-> ChatBody(Absent, Absent, Absent)]
BadReq == [method |-> "POST", path |-> "/v1/chat/completions", body |-> Arr(<<>>)]
UpStream(ls) == Up("ok", 200, NoErr, ls, "close", Null)

\* What the connections are: a request and what its upstream call does.
ConnCases ==
    {<<StreamReq, UpStream(<<Line("json", ChunkB), Line("done", Null),
                             Line("json", ChunkA)>>)>>,
     <<StreamReq, UpStream(<<Line("json", ChunkB), Line("json", Null)>>)>>,
     <<SyncReq, Up("ok", 200, NoErr, <<>>, "close",
                   Obj([choices |-> Arr(<<Obj([message |-> SampleMessage])>>)]))>>,
     <<SyncReq, Up("remote_disconnected", 0, NoErr, <<>>, "close", Null)>>,
     <<BadReq, NoUp>>}

\* A connection that is not yet accepted.
ConnInit(r, u) ==
    [st |-> "waiting", req |-> r, up |-> u, model |-> "", resp |-> NoResp,
     out |-> <<>>, pos |-> 0, done_sent |-> FALSE, total |-> "", logged |-> {},
     wfail |-> FALSE, peer |-> "connected", escaped |-> "none", chat_id |-> Null]

\* make_openai_id: the k-th id handed out; the 29 random characters make every
\* id a new one.
ChatId(k) == Str("chatcmpl-" \o ToString(k))

\* chat_id, total and done_sent are local variables of the do_stream call
\* (lines 207-209): thread i reads and writes its own.
LocalsShared(i) == 1

Locals(i) == i

InitConc ==
    /\ pc = "conc"
    /\ req = [method |-> "GET", path |-> "/health", body |-> Null]
    /\ Idle
    /\ nin = Null /\ nidx = 0 /\ nmode = "off" /\ nout = Null
    /\ conns \in [1..MaxConns -> {ConnInit(c[1], c[2]) : c \in ConnCases}]
    /\ listener = "listening"
    /\ nextid = 0

\* Lines 343-347: a thread is started for the connection, and serve_forever
\* goes on.
process_request(i) ==
    /\ listener = "listening"
    /\ conns[i].st = "waiting"
    /\ conns' = [conns EXCEPT ![i].st = "accept"]
    /\ UNCHANGED <<hvars, nvars, listener, nextid>>

\* The handler after do_POST has run up to the call of do_stream, h being what
\* handle_chat leaves behind and k the number of ids handed out before.
Started(c, h, k) ==
    [c EXCEPT !.st = h.pc, !.model = h.model, !.resp = h.resp,
              !.escaped = h.escaped, !.logged = h.logged,
              !.chat_id = IF h.pc = "stream" THEN ChatId(k + 1) ELSE Null]

AfterFinish(i, h) ==
    /\ conns' = [conns EXCEPT ![i] = Started(conns[i], h, nextid)]
    /\ nextid' = IF h.pc = "stream" THEN nextid + 1 ELSE nextid
    /\ UNCHANGED <<hvars, nvars, listener>>

\* Line 351: the thread constructs the ProxyHandler, which handles the request.
finish_request(i) ==
    /\ conns[i].st = "accept"
    /\ AfterFinish(i, PostResult(conns[i].req, conns[i].up))

\* One iteration of thread i's do_stream loop: c is its connection, l holds
\* the local variables it uses.
ConnStep(c, l, e) ==
    StreamStepOf(c.up, c.model, l.chat_id, c.peer, c.out, c.pos, l.done_sent,
                 l.total, c.logged, c.wfail, e)

ConnAfterStream(c, st) ==
    [c EXCEPT !.st = st.pc, !.out = st.out, !.pos = st.pos,
              !.done_sent = st.done_sent, !.total = st.total,
              !.wfail = st.wfail,
              !.escaped = IF st.exc = "none" \/ handle_catches(st.exc)
                          THEN "none" ELSE st.exc,
              !.logged = IF st.exc # "none" /\ handle_catches(st.exc)
                         THEN st.logged \cup {"conn_reset"} ELSE st.logged]

stream_request(i) ==
    /\ conns[i].st = "stream"
    /\ \E e \in WriteErrors :
          conns' = [conns EXCEPT
                      ![i] = ConnAfterStream(conns[i],
                                ConnStep(conns[i], conns[Locals(i)], e))]
    /\ UNCHANGED <<hvars, nvars, listener, nextid>>

\* The caller of connection i goes away in the middle of its stream.
peer_resets(i) ==
    /\ conns[i].st = "stream"
    /\ conns[i].peer = "connected"
    /\ conns' = [conns EXCEPT ![i].peer = "gone"]
    /\ UNCHANGED <<hvars, nvars, listener, nextid>>

\* Lines 352-355 and 357-363: an Exception that left the handler is reported by
\* handle_error, and the request is shut down in any case.
shutdown_request(i) ==
    /\ conns[i].st = "finished"
    /\ conns' = [conns EXCEPT
                   ![i].st = "shutdown",
                   ![i].logged = IF conns[i].escaped # "none"
                                 THEN @ \cup {"handle_error"} ELSE @]
    /\ UNCHANGED <<hvars, nvars, listener, nextid>>

NextConc ==
    \E i \in 1..MaxConns :
        \/ process_request(i)
        \/ finish_request(i)
        \/ stream_request(i)
        \/ peer_resets(i)
        \/ shutdown_request(i)

SpecConc == InitConc /\ [][NextConc]_vars

(***************************************************************************)
(* The claims.                                                             *)
(***************************************************************************)
Streamed == resp.kind = "sse"
ChunkFrames(o) == SelectSeq(o, LAMBDA fr : fr.kind = "chunk")
IsPrefix(a, b) == Len(a) <= Len(b) /\ SubSeq(b, 1, Len(a)) = a
StructuredError(status, message) ==
    Obj([error |-> Obj([message |-> message, type |-> Str("api_error"),
                        code |-> Num(status)])])
IsChatPost == req.method = "POST" /\ req.path \in ChatPaths

\* C1: whatever the upstream lines (ending with the sentinel, ending without it,
\* or cut short by an error in reading or processing a line), while the caller
\* stays connected a finished stream has written exactly one [DONE] frame, as
\* its last frame; at no time is a frame written after a [DONE] frame, and none
\* is written while the loop still runs.
C1_ExactlyOneDone ==
    /\ \A i \in 1..Len(out) : out[i].kind = "done" => i = Len(out)
    /\ pc = "stream" => \A i \in 1..Len(out) : out[i].kind = "chunk"
    /\ (pc = "finished" /\ Streamed /\ ~wfail) =>
          (Len(out) > 0 /\ out[Len(out)] = DoneFrame)

\* C1's case: upstream sends a chunk, the sentinel and one more chunk; the caller
\* has received the chunk's frame and then [DONE], and nothing else.
C1_Witness ==
    /\ pc = "finished" /\ Streamed /\ ~wfail
    /\ Len(upres.lines) = 3
    /\ upres.lines[1].k = "json" /\ upres.lines[2].k = "done"
    /\ upres.lines[3].k = "json" /\ IsObj(upres.lines[3].v)
    /\ Len(out) = 2 /\ out[1].kind = "chunk" /\ out[2] = DoneFrame

\* The lines of the stream that produce a frame: a "data:" line whose payload
\* parses to a chunk that is normalized without an exception.
Emits(line) ==
    line.k = "json" /\ ~IsRaised(ProcessChunk(line.v, model, make_openai_id))
FrameOf(line) == ProcessChunk(line.v, model, make_openai_id).frame
ExpectedFrames(lines, n) ==
    LET sel == SelectSeq(SubSeq(lines, 1, n), Emits)
    IN  [i \in 1..Len(sel) |-> FrameOf(sel[i])]
Malformed(line) ==
    \/ line.k \in {"badjson", "badutf8"}
    \/ line.k = "json" /\ ~IsObj(line.v)
\* A valid data frame: a chunk object that is processed without an exception.
ValidChunk(line) == line.k = "json" /\ IsObj(line.v) /\ Emits(line)

\* C3: a malformed data frame is skipped and the stream goes on: when the stream
\* is over and no write failed, every valid data frame that follows a malformed
\* one before the sentinel has been emitted, and no stream error was logged
\* unless reading upstream itself failed.
C3_MalformedFrameSkipped ==
    (pc = "finished" /\ Streamed /\ ~wfail) =>
        \A i \in 1..Len(upres.lines) : \A j \in (i+1)..Len(upres.lines) :
            ( /\ Malformed(upres.lines[i])
              /\ ValidChunk(upres.lines[j])
              /\ \A k \in 1..j : upres.lines[k].k # "done" )
            => \E n \in 1..Len(out) : out[n] = FrameOf(upres.lines[j])

\* What C4 says the upstream max_tokens is, v being the inbound value.
ClaimedMaxTokens(v, ceiling) ==
    IF v.t \in {"num", "numstr"} THEN Min(v.n, ceiling)
    ELSE IF v.t = "bool" THEN Min(1, ceiling)
    ELSE Min(4096, ceiling)

\* C4: for every chat request whose body is a JSON object the translation
\* completes (an upstream request is sent) and its max_tokens is at most the
\* resolved profile's ceiling: min(4096, ceiling) when the inbound value is
\* absent, null or not parseable as an integer, min(requested, ceiling) otherwise.
C4_MaxTokensClamped ==
    (pc # "accept" /\ IsChatPost /\ IsObj(req.body)) =>
        /\ Len(sent) = 1
        /\ model \in DOMAIN MODELS
        /\ sent[1].f["max_tokens"].t = "num"
        /\ sent[1].f["max_tokens"].n <= MODELS[model].max_tokens
        /\ sent[1].f["max_tokens"].n
             = ClaimedMaxTokens(Get(req.body.f, "max_tokens", Null),
                                MODELS[model].max_tokens)

\* The model id a chat request asks for.
Requested == Get(req.body.f, "model", Str(DEFAULT_MODEL)).s
AllNames == ModelNames \cup DOMAIN MODELS \cup DOMAIN MODEL_ALIASES

\* C5: resolve_model is total and idempotent: every alias target and the default
\* are keys of MODELS; every name resolves to a key of MODELS (itself when it is
\* one, else its alias target, else the default), and resolving the result again
\* changes nothing.  The model handle_chat resolved is such a key.
C5_ResolveTotalIdempotent ==
    /\ DEFAULT_MODEL \in DOMAIN MODELS
    /\ \A a \in DOMAIN MODEL_ALIASES : MODEL_ALIASES[a] \in DOMAIN MODELS
    /\ \A x \in AllNames :
          /\ resolve_model(x) \in DOMAIN MODELS
          /\ resolve_model(resolve_model(x)) = resolve_model(x)
          /\ x \in DOMAIN MODELS => resolve_model(x) = x
          /\ (x \notin DOMAIN MODELS /\ x \in DOMAIN MODEL_ALIASES)
                => resolve_model(x) = MODEL_ALIASES[x]
          /\ (x \notin DOMAIN MODELS /\ x \notin DOMAIN MODEL_ALIASES)
                => resolve_model(x) = DEFAULT_MODEL
    /\ (pc # "accept" /\ IsChatPost /\ IsObj(req.body)) =>
          /\ model \in DOMAIN MODELS
          /\ model = resolve_model(Requested)
          /\ resolve_model(model) = model

\* C5's case: a request for an unknown model went upstream under the default id.
C5_Witness ==
    /\ pc = "finished" /\ IsChatPost /\ IsObj(req.body)
    /\ Requested = "llama-3"
    /\ model = DEFAULT_MODEL
    /\ Len(sent) = 1 /\ sent[1].f["model"] = Str(DEFAULT_MODEL)

\* What C6 says the relayed message is: the nested error.message, else the first
\* 500 characters of the body.
ClaimedMessage(err) ==
    IF /\ IsObj(err.v)
       /\ "error" \in DOMAIN err.v.f
       /\ IsObj(err.v.f["error"])
       /\ "message" \in DOMAIN err.v.f["error"].f
    THEN err.v.f["error"].f["message"]
    ELSE [t |-> "text", len |-> Min(err.len, 500)]

\* C6: when the upstream call fails, the caller gets one JSON error response
\* and no event stream: with upstream's status code and message for a non-2xx
\* reply, with status 502 for every network or timeout failure.
C6_UpstreamFailureIsJsonError ==
    (pc # "accept" /\ upres.k \notin {"none", "ok"}) =>
        /\ pc = "finished" /\ resp.kind = "json" /\ out = <<>>
        /\ escaped = "none"
        /\ upres.k = "http_error" =>
              /\ resp.status = upres.code
              /\ resp.body = StructuredError(upres.code, ClaimedMessage(upres.err))
        /\ upres.k # "http_error" =>
              /\ resp.status = 502
              /\ resp.body = StructuredError(502, Str("Connection error"))

\* C7: a POST to a chat-completions path whose body cannot be read as JSON (the
\* text is no JSON, or its Content-Length is no number) is answered with 400 and
\* the structured error body; nothing is raised, no model is resolved and no
\* upstream request is sent.
C7_MalformedBodyRejected ==
    (pc # "accept" /\ IsChatPost /\ req.body.t \in {"notjson", "badlen"}) =>
        /\ pc = "finished"
        /\ resp = [kind |-> "json", status |-> 400,
                   body |-> StructuredError(400, Str("Invalid body"))]
        /\ escaped = "none"
        /\ model = "" /\ sent = <<>> /\ upres = NoUp /\ out = <<>>

\* C7's case: a body with an unreadable Content-Length was answered with 400.
C7_Witness ==
    /\ pc = "finished" /\ IsChatPost /\ req.body = BadLength
    /\ resp.status = 400 /\ sent = <<>>

\* The routes the handler serves.
Served(r) ==
    \/ r.method = "OPTIONS"
    \/ r.method = "GET" /\ r.path \in ModelPaths \cup {"/health"}
    \/ r.method = "POST" /\ r.path \in ChatPaths

\* C8: routing is total: every request outside the served routes, whatever its
\* method, is answered with 404 and the structured error body; the listing
\* routes and OPTIONS are answered with 200.
C8_RoutingTotal ==
    pc # "accept" =>
        /\ ~Served(req) =>
              resp = [kind |-> "json", status |-> 404,
                      body |-> StructuredError(404, Str("Not found"))]
        /\ (Served(req) /\ req.method # "POST") => resp.status = 200

\* C9: a write to the caller that fails in do_stream, on a chunk frame or on the
\* sentinel frame, is an orderly end of the stream: the handler is over, it has
\* logged, and no exception has left ProxyHandler.handle.
C9_PeerDisconnectOrderly ==
    wfail =>
        /\ pc = "finished"
        /\ escaped = "none"
        /\ logged \cap {"stream_error", "conn_reset"} # {}

\* C10: every normalized choice, sync or stream, has an "index" that is not
\* null: upstream's when upstream supplies one, else the choice's position; also
\* for a choice whose upstream "index" is null.
C10_IndexNonNull ==
    (nmode \in {"sync", "stream"} /\ IsObj(nout)) =>
        /\ "index" \in DOMAIN nout.f
        /\ nout.f["index"] # Null
        /\ nout.f["index"]
             = IF "index" \in DOMAIN nin.f /\ nin.f["index"] # Null
               THEN nin.f["index"]
               ELSE Num(nidx)

\* The choices of a response, and of the upstream body it was made from.
OutChoices == nout.f["choices"].q
UpChoices == Get(nin.f, "choices", Arr(<<>>))
\* The role upstream gave choice c's message, when it is a non-empty value.
HasUpstreamRole(c) ==
    /\ IsObj(c) /\ "message" \in DOMAIN c.f /\ IsObj(c.f["message"])
    /\ "role" \in DOMAIN c.f["message"].f
    /\ Truthy(c.f["message"].f["role"])

\* C11: every choice of normalize_response's output has a message with a role
\* that is a non-empty string: upstream's role when that is a non-empty value,
\* else "assistant".
C11_RoleNonEmpty ==
    (pc = "resp" /\ nmode = "once" /\ IsObj(nout)) =>
        \A i \in 1..Len(OutChoices) :
            /\ IsObj(OutChoices[i]) /\ "message" \in DOMAIN OutChoices[i].f
            /\ IsObj(OutChoices[i].f["message"])
            /\ "role" \in DOMAIN OutChoices[i].f["message"].f
            /\ OutChoices[i].f["message"].f["role"].t = "str"
            /\ OutChoices[i].f["message"].f["role"].s # ""
            /\ OutChoices[i].f["message"].f["role"]
                 = IF i <= Len(UpChoices.q) /\ HasUpstreamRole(UpChoices.q[i])
                   THEN UpChoices.q[i].f["message"].f["role"]
                   ELSE Str("assistant")

\* C12: when upstream supplies zero choices (no "choices" key, or an empty
\* list) the response has exactly one choice, {index: 0, message: {role:
\* "assistant", content: ""}, finish_reason: "stop"}; when it supplies n >= 1
\* choices that normalize, the response has exactly their n normalized choices,
\* in upstream's order, and no synthesized one.
C12_DefaultChoiceIffNone ==
    (pc = "resp" /\ nmode = "once" /\ IsObj(nin)) =>
        /\ UpChoices = Arr(<<>>) =>
              /\ IsObj(nout)
              /\ nout.f["choices"]
                   = Arr(<<Obj([index |-> Num(0),
                                message |-> Obj([role |-> Str("assistant"),
                                                 content |-> Str("")]),
                                finish_reason |-> Str("stop")])>>)
        /\ (UpChoices.t = "arr" /\ Len(UpChoices.q) >= 1 /\ IsObj(nout)) =>
              /\ Len(OutChoices) = Len(UpChoices.q)
              /\ \A i \in 1..Len(OutChoices) :
                    OutChoices[i] = normalize_choice(UpChoices.q[i], i - 1)

\* C12's case: a body without a "choices" key got the one default choice.
C12_Witness ==
    /\ pc = "resp" /\ nmode = "once"
    /\ nin = Obj([id |-> Str("r1"), usage |-> Null])
    /\ IsObj(nout) /\ Len(OutChoices) = 1
    /\ OutChoices[1].f["finish_reason"] = Str("stop")
    /\ OutChoices[1].f["message"].f["content"] = Str("")

\* C13: in the sync output no field is null or an empty mapping: neither a key
\* of the normalized choice nor a key of its message has the value null or {}.
C13_NoNullOrEmpty ==
    (pc = "norm" /\ nmode = "sync" /\ IsObj(nout)) =>
        /\ \A k \in DOMAIN nout.f : nout.f[k] \notin {Null, EmptyObj}
        /\ \A k \in DOMAIN nout.f["message"].f :
              nout.f["message"].f[k] \notin {Null, EmptyObj}

\* The delta a stream choice resolves to: its "delta", else its "message", else
\* {}; and an inner object with the choice's extension fields it lacks.
Resolved(c) ==
    IF Truthy(Get(c, "delta", Null)) THEN c["delta"]
    ELSE IF Truthy(Get(c, "message", Null)) THEN c["message"]
    ELSE EmptyObj
AfterHoisting(c, inner) ==
    [k \in DOMAIN inner \cup (MESSAGE_LEVEL_FIELDS \cap DOMAIN c) |->
        IF k \in DOMAIN inner THEN inner[k] ELSE c[k]]
EnrichedDelta == Obj(AfterHoisting(nin.f, Resolved(nin.f).f))
UpstreamDeltaEmpty == "delta" \in DOMAIN nin.f /\ nin.f["delta"] = EmptyObj

\* C14, as stated: a stream choice whose upstream delta is {} leaves with
\* delta: {}.
C14_EmptyDeltaEmitted ==
    (pc = "norm" /\ nmode = "stream" /\ UpstreamDeltaEmpty) =>
        /\ IsObj(nout) /\ "delta" \in DOMAIN nout.f
        /\ nout.f["delta"] = EmptyObj

\* C14, amended: a stream choice whose upstream delta is {} leaves with a delta
\* key: delta: {} when the choice has no non-empty message and no extension
\* field beside the delta, and otherwise the message, with the extension fields
\* hoisted into it.  Of the other keys of the choice, those whose value is null
\* are dropped and all others, the empty mappings too, are kept as they are.
C14_EmptyDeltaKeptUnlessFilled ==
    (pc = "norm" /\ nmode = "stream") =>
        /\ IsObj(nout)
        /\ UpstreamDeltaEmpty =>
              /\ "delta" \in DOMAIN nout.f
              /\ nout.f["delta"] = EnrichedDelta
              /\ ( /\ ~Truthy(Get(nin.f, "message", Null))
                   /\ MESSAGE_LEVEL_FIELDS \cap DOMAIN nin.f = {} )
                 => nout.f["delta"] = EmptyObj
        /\ \A k \in DOMAIN nin.f \ {"message", "delta", "index", "finish_reason"} :
              IF nin.f[k] = Null THEN k \notin DOMAIN nout.f
              ELSE k \in DOMAIN nout.f /\ nout.f[k] = nin.f[k]

\* C14's case: a choice that is just {delta: {}} left as {delta: {}, index}.
C14_Witness ==
    /\ pc = "norm" /\ nmode = "stream"
    /\ DOMAIN nin.f = {"delta"} /\ nin.f["delta"] = EmptyObj
    /\ DOMAIN nout.f = {"delta", "index"} /\ nout.f["delta"] = EmptyObj

\* C17, as stated: a stream choice leaves without a message key, and with a
\* delta key exactly when the delta resolved from its delta or message is
\* non-empty after hoisting.
C17_DeltaKeyIffNonEmpty ==
    (pc = "norm" /\ nmode = "stream" /\ IsObj(nout)) =>
        /\ "message" \notin DOMAIN nout.f
        /\ "delta" \in DOMAIN nout.f <=> EnrichedDelta # EmptyObj

\* C17, amended: a stream choice leaves without a message key.  When the delta
\* resolved from its delta or message is non-empty after hoisting, it leaves
\* with that as its delta.  When it is empty, no delta key is set: the choice
\* leaves without one unless upstream's own delta is present and not null (an
\* empty mapping), and that is left as it is.
C17_EmptyDeltaNotSet ==
    (pc = "norm" /\ nmode = "stream" /\ IsObj(nout)) =>
        /\ "message" \notin DOMAIN nout.f
        /\ EnrichedDelta # EmptyObj =>
              "delta" \in DOMAIN nout.f /\ nout.f["delta"] = EnrichedDelta
        /\ EnrichedDelta = EmptyObj =>
              /\ "delta" \in DOMAIN nout.f
                   <=> ("delta" \in DOMAIN nin.f /\ nin.f["delta"] # Null)
              /\ "delta" \in DOMAIN nout.f => nout.f["delta"] = nin.f["delta"]

\* C17's case: a choice with an empty message and no delta left with neither.
C17_Witness ==
    /\ pc = "norm" /\ nmode = "stream"
    /\ "delta" \notin DOMAIN nin.f
    /\ "message" \in DOMAIN nin.f /\ nin.f["message"] = EmptyObj
    /\ EnrichedDelta = EmptyObj
    /\ IsObj(nout) /\ "delta" \notin DOMAIN nout.f /\ "message" \notin DOMAIN nout.f

\* Hoisting from choice c took the object `before` to the object `after`.
HoistedRight(c, before, after) ==
    /\ \A f \in MESSAGE_LEVEL_FIELDS :
          (f \in DOMAIN c /\ f \notin DOMAIN before)
             => (f \in DOMAIN after /\ after[f] = c[f])
    /\ \A k \in DOMAIN before : k \in DOMAIN after /\ after[k] = before[k]
    /\ \A k \in DOMAIN after :
          k \in DOMAIN before \/ (k \in MESSAGE_LEVEL_FIELDS /\ k \in DOMAIN c)
C19_Hoisted ==
    /\ (pc = "norm" /\ nmode = "sync" /\ IsObj(nout)) =>
          HoistedRight(nin.f,
                       ensure_role(OrEmpty(PickMessage(nin.f)), "assistant").f,
                       nout.f["message"].f)
    /\ (pc = "norm" /\ nmode = "stream" /\ IsObj(nout)
          /\ "delta" \in DOMAIN nout.f /\ Truthy(nout.f["delta"])) =>
          HoistedRight(nin.f, Resolved(nin.f).f, nout.f["delta"].f)

\* C19: in both normalizers, an extension field beside the message/delta and
\* absent inside it is in the outbound message/delta with the choice-level
\* value; every key already inside keeps its nested value (an extension field
\* inside is never overwritten); hoisting adds no other key and removes none;
\* and the upstream choice is the same after the call as before.
C19_HoistingKeepsNested ==
    /\ []C19_Hoisted
    /\ [][pc = "norm" => nin' = nin]_vars

\* C19's case: tool_calls beside and inside the message: the nested value is
\* the one that leaves, in the sync message and in the stream delta.
C19_Witness ==
    /\ pc = "norm" /\ nmode = "sync"
    /\ "tool_calls" \in DOMAIN nin.f /\ nin.f["tool_calls"] = Arr(<<Str("outer")>>)
    /\ "message" \in DOMAIN nin.f /\ IsObj(nin.f["message"])
    /\ "tool_calls" \in DOMAIN nin.f["message"].f
    /\ nout.f["message"].f["tool_calls"] = Arr(<<Str("inner")>>)
    /\ nout.f["tool_calls"] = Arr(<<Str("outer")>>)

\* C15: sync normalization is idempotent: normalizing the response that
\* normalize_response returned gives that same response: no key added, removed
\* or changed, at the top level, in any choice and in any message.
C15_Idempotent ==
    (pc = "resp" /\ nmode = "twice") => nout = nin

\* C16: normalize_response does not raise on an upstream body that is a JSON
\* object, whatever its choices, messages and deltas are, and the sync request
\* is answered: the handler sends the 200 response and raises nothing.
C16_SyncAlwaysAnswered ==
    ( /\ pc = "finished" /\ IsChatPost /\ IsObj(req.body)
      /\ ~WantsStream(req.body)
      /\ upres.k = "ok" /\ IsObj(upres.body) )
    => ( /\ escaped = "none"
         /\ resp.kind = "json" /\ resp.status = 200
         /\ resp.body = normalize_response(upres.body, model)
         /\ IsObj(resp.body) )

\* A data line whose payload is a chunk object with choices that normalize.
ParsesAsChunk(line) ==
    /\ line.k = "json" /\ IsObj(line.v)
    /\ ~IsRaised(StreamChoices(Iterate(Get(line.v.f, "choices", Arr(<<>>)))))
\* The frame of such a line: the envelope around its normalized choices.
FrameWithoutTotal(line) ==
    ChunkFrame(Obj(ChunkEnvelope(
        line.v.f, model, make_openai_id,
        StreamChoices(Iterate(Get(line.v.f, "choices", Arr(<<>>)))))))

\* C18: the running total never changes what is emitted: while the caller is
\* connected, every line read that parses as a chunk has its frame written,
\* whatever the shape of the deltas' content, and the stream does not end at
\* such a line while upstream has more lines.
C18_TotalNeverAltersOutput ==
    (Streamed /\ ~wfail) =>
        /\ \A i \in 1..pos :
              ParsesAsChunk(upres.lines[i]) =>
                 \E n \in 1..Len(out) : out[n] = FrameWithoutTotal(upres.lines[i])
        /\ (pos > 0 /\ pos < Len(upres.lines) /\ ParsesAsChunk(upres.lines[pos]))
              => pc = "stream"

\* What connection c's own request and upstream stream give: the frames of the
\* lines it has read, with its own model and chat id, and their text.
ConnEmits(c, line) ==
    line.k = "json" /\ ~IsRaised(ProcessChunk(line.v, c.model, c.chat_id))
ConnFrames(c, n) ==
    LET sel == SelectSeq(SubSeq(c.up.lines, 1, n), LAMBDA ln : ConnEmits(c, ln))
    IN  [k \in 1..Len(sel) |-> ProcessChunk(sel[k].v, c.model, c.chat_id).frame]
RECURSIVE ConnText(_, _)
ConnText(c, n) ==
    IF n = 0 THEN ""
    ELSE ConnText(c, n - 1)
           \o (IF ConnEmits(c, c.up.lines[n])
               THEN ProcessChunk(c.up.lines[n].v, c.model, c.chat_id).text
               ELSE "")
ConnIds == {Null} \cup {ChatId(k) : k \in 1..MaxConns}
\* What a connection has to show for itself, from its own request, its own
\* upstream stream and its own chat id alone: the response, and the frames and
\* the text total after n lines.
ConnOwn(r, u, h, id) ==
    [resp |-> h.resp,
     frames |-> [n \in 0..Len(u.lines) |->
                   ConnFrames([up |-> u, model |-> h.model, chat_id |-> id], n)],
     text |-> [n \in 0..Len(u.lines) |->
                 ConnText([up |-> u, model |-> h.model, chat_id |-> id], n)]]
ConnExpected ==
    [cs \in ConnCases, id \in ConnIds |->
        ConnOwn(cs[1], cs[2], PostResult(cs[1], cs[2]), id)]
ConnIsolatedAs(c, own) ==
    /\ c.resp.kind = "sse" =>
          /\ c.resp = own.resp
          /\ IF c.wfail
             THEN IsPrefix(ChunkFrames(c.out), own.frames[c.pos])
             ELSE ChunkFrames(c.out) = own.frames[c.pos]
          /\ c.total = own.text[c.pos]
          /\ \A n \in 1..Len(c.out) : c.out[n].kind = "done" => n = Len(c.out)
          /\ (c.st \in {"finished", "shutdown"} /\ ~c.wfail) =>
                (Len(c.out) > 0 /\ c.out[Len(c.out)] = DoneFrame)
    /\ (c.st \in {"finished", "shutdown"} /\ c.resp.kind # "sse") =>
          /\ c.resp = own.resp
          /\ c.out = <<>>
    /\ (c.st = "shutdown" /\ c.escaped # "none") => "handle_error" \in c.logged
ConnIsolated(c) == ConnIsolatedAs(c, ConnExpected[<<c.req, c.up>>, c.chat_id])

\* C20: with the connections handled concurrently, whatever a handler does (an
\* exception that leaves it, a peer reset, a connection reset that handle
\* catches) the listener stays free to accept, a failed handler's request is
\* shut down after handle_error, and every connection's response, frames and
\* text total are those of its own request and its own upstream stream, with
\* its own chat id, which no other connection has.
C20_HandlersIsolated ==
    pc = "conc" =>
        /\ listener = "listening"
        /\ \A i \in 1..MaxConns : ConnIsolated(conns[i])
        /\ \A i, j \in 1..MaxConns :
              (i # j /\ conns[i].chat_id # Null) => conns[i].chat_id # conns[j].chat_id

\* C20's case: connection 1's handler failed with an exception (its caller went
\* away) and its request is shut down; connection 2, accepted meanwhile, is in
\* the middle of its own stream with its first frame out under its own id.
C20_Witness ==
    /\ pc = "conc"
    /\ conns[1].st = "shutdown" /\ conns[1].escaped = "BrokenPipeError"
    /\ conns[2].st = "stream" /\ conns[2].pos = 1 /\ Len(conns[2].out) = 1
    /\ conns[2].out[1].oai.f["id"] = conns[2].chat_id
    /\ conns[1].chat_id # Null /\ conns[1].chat_id # conns[2].chat_id

====
